---- MODULE Spec2Model ----
(***************************************************************************)
(* Reservation admission control of the residential-complex backend:       *)
(* createReservation, cancelReservation and hideReservationFromUser of     *)
(* src/src/controllers/reservation.ts over the Reservation and Amenity     *)
(* tables.                                                                 *)
(***************************************************************************)
EXTENDS Integers, FiniteSets, Sequences, TLC

\* ------------------------------------------------------------------ bounds
NumUsers == 3
NumAmenities == 2
MaxCapacity == 2
MaxDurationMinutes == 2
MaxTime == 3
MaxReservations == 2
NumProcs == 2
NumAccounts == 5
\* Timestamps are integers (milliseconds in the code); the two scales below
\* stand for 60000 ms per minute and the 86400000 ms of a calendar day.
MsPerMinute == 2
DayMs == 2
NumPasswords == 2
MaxResetTokens == 2
MaxClock == 3
ResetTokenLifetime == 2

\* --------------------------------------------------------- request values
\* A body field that is absent (or the empty string): `!startTime` is true.
Missing == -2
\* A present string that new Date() cannot parse: the Date is Invalid (NaN).
Malformed == -1
\* getTime() of an Invalid Date.
NaN == -1
\* req.user without an id: `!userId` is true.
NoUser == 0
\* An amenityId absent from the body (or 0): `!amenityId` is true.
NoAmenity == 0

\* The rows of the User table, and those of them whose requests to the
\* reservation and account endpoints are followed.
Accounts == 1..NumAccounts
Users == 1..NumUsers
AmenityIds == 1..NumAmenities
\* amenityId values a body can carry: absent, an existing id, an unknown id.
RequestAmenityIds == 0..(NumAmenities + 1)
Times == 0..MaxTime
Procs == 1..NumProcs
RequestTimes == Times \cup {Missing, Malformed}

Requests ==
  [userId : Users, amenityId : RequestAmenityIds,
   startTime : RequestTimes, endTime : RequestTimes]

VARIABLES
  amenities,     \* Amenity table: id -> [capacity, maxDuration]
  reservations,  \* Reservation table: a set of rows
  nextId,        \* next value of the Reservation id sequence (SERIAL)
  proc,          \* the requests in flight: each one's position and locals
  users,         \* User table: id -> role, for the rows that exist
  credentials,   \* User table: id -> [password, resetPasswordToken,
                 \*   resetPasswordExpires]
  issued,        \* how many reset tokens crypto.randomBytes has produced
  clock          \* the server's Date.now()

authVars == <<credentials, issued, clock>>

vars == <<amenities, reservations, nextId, proc, users, credentials, issued, clock>>

\* ------------------------------------------------------------ responses
Response(code, msg) == [code |-> code, msg |-> msg]

Unauthenticated == Response(401, "User not authenticated")
MissingParameters == Response(400, "Missing parameters")
AmenityNotFound == Response(404, "Amenity not found")
DurationExceeded == Response(400, "Max duration for <amenity> is <maxDuration> minutes")
InvalidTimeRange == Response(400, "Start time must be before end time")
UserTimeConflict == Response(400, "You already have a reservation during this time")
DuplicateAmenityPerDay == Response(400, "You already have a reservation for <amenity> on this day")
CapacityFull == Response(400, "Time slot full")
InternalError == Response(500, "Internal server error")
UserNotFound == Response(404, "User not found")
AccountDeleted == Response(200, "User account deleted successfully")
InvalidRole == Response(400, "Invalid role. Must be: admin, tenant, or owner")
InvalidUserId == Response(400, "Invalid user ID")
LastAdmin ==
  Response(403, "Cannot remove admin role from the last administrator in the system")
RoleUpdated == Response(200, "User role updated successfully")
AdminUserNotFound == Response(401, "User not found")
AdminRequired == Response(403, "Admin access required. Unauthorized attempt logged.")
InvalidAmenityId == Response(400, "Invalid amenity ID")
AmenityNoEncontrado == Response(404, "Amenity no encontrado")
AmenityHasActiveReservations ==
  Response(409, "No se puede eliminar: el amenity tiene reservas activas")
AmenityDeleted == Response(204, "")
ErrorDeletingAmenity == Response(500, "Error deleting amenity")
InvalidCapacity == Response(400, "Capacity must be a positive number")
InvalidMaxDuration ==
  Response(400, "Max duration must be a positive number (in minutes)")
AmenityUpdated == Response(200, "Amenity updated successfully")
Unauthorized == Response(401, "Unauthorized")
ReservationNotFound == Response(404, "Reservation not found")
NotAllowed == Response(403, "Not allowed")
Ok == Response(200, "OK")
\* No response sent (yet).
NoResponse == Response(0, "")

\* ------------------------------------------------------------ JavaScript
\* new Date(value).getTime(): NaN for a string that is no date.
ParseDate(value) == IF value \in Times THEN value ELSE NaN

IsNaN(t) == t = NaN

\* Relational operators on numbers: every comparison with NaN is false.
\* Mutation: the comparison is strict.
Ge_Strict(a, b) == ~IsNaN(a) /\ ~IsNaN(b) /\ a > b

Ge(a, b) == ~IsNaN(a) /\ ~IsNaN(b) /\ a >= b

\* date.setHours(0, 0, 0, 0) and date.setHours(23, 59, 59, 999)
\* Mutation: the copy of start is used without resetting its time of day.
StartOfDay_NotReset(t) == t

StartOfDay(t) == t - (t % DayMs)
EndOfDay(t) == (t - (t % DayMs)) + (DayMs - 1)

\* ------------------------------------------------------------ store calls
\* prisma.amenity.findUnique({ where: { id } }) is null for an unknown id.
AmenityExists(ams, amenityId) == amenityId \in DOMAIN ams

\* Mutation: only tests whether the new start falls inside an existing
\* reservation.
UserOverlapWhere_StartInside(r, userId, start, end) ==
  /\ r.userId = userId
  /\ r.status = "confirmed"
  /\ r.startTime <= start
  /\ r.endTime > start

\* Mutation: the status filter is left out.
UserOverlapWhere_AnyStatus(r, userId, start, end) ==
  /\ r.userId = userId
  /\ r.startTime < end
  /\ r.endTime > start

\* The where-clause of the user-overlap lookup (findFirst).
UserOverlapWhere(r, userId, start, end) ==
  /\ r.userId = userId
  /\ r.status = "confirmed"
  /\ r.startTime < end
  /\ r.endTime > start

userOverlappingReservation(store, userId, start, end) ==
  \E r \in store : UserOverlapWhere(r, userId, start, end)

\* The where-clause of the same-amenity, same-day lookup (findFirst).
SameDayWhere(r, userId, amenityId, startOfDay, endOfDay) ==
  /\ r.userId = userId
  /\ r.amenityId = amenityId
  /\ r.status = "confirmed"
  /\ r.startTime >= startOfDay
  /\ r.startTime <= endOfDay

userSameAmenityReservation(store, userId, amenityId, start) ==
  \E r \in store :
    SameDayWhere(r, userId, amenityId, StartOfDay(start), EndOfDay(start))

\* Mutation: counts only the reservations that strictly contain the window.
OverlapWhere_Contains(r, amenityId, start, end) ==
  /\ r.amenityId = amenityId
  /\ r.status = "confirmed"
  /\ r.startTime < start
  /\ r.endTime > end

\* Mutation: reservations hidden by their owner are not counted.
OverlapWhere_VisibleOnly(r, amenityId, start, end) ==
  /\ r.amenityId = amenityId
  /\ r.status = "confirmed"
  /\ r.hiddenFromUser = FALSE
  /\ r.startTime < end
  /\ r.endTime > start

\* The where-clause of the capacity count.
OverlapWhere(r, amenityId, start, end) ==
  /\ r.amenityId = amenityId
  /\ r.status = "confirmed"
  /\ r.startTime < end
  /\ r.endTime > start

\* Mutation: counts the reservations active at the first instant of the
\* window only.
overlappingCount_AtStart(store, amenityId, start, end) ==
  Cardinality({r \in store : OverlapWhere(r, amenityId, start, start + 1)})

overlappingCount(store, amenityId, start, end) ==
  Cardinality({r \in store : OverlapWhere(r, amenityId, start, end)})

\* Mutation: the comparison is strict.
SlotFull_Strict(count, capacity) == count > capacity

\* overlappingCount >= amenity.capacity
SlotFull(count, capacity) == count >= capacity

\* Mutation: the duration is taken as an absolute value.
DurationTooLong_Abs(start, end, maxDuration) ==
  /\ ~IsNaN(start) /\ ~IsNaN(end)
  /\ (IF end >= start THEN end - start ELSE start - end) > maxDuration * MsPerMinute

\* duration > amenity.maxDuration, duration = (end - start) / 60000
DurationTooLong(start, end, maxDuration) ==
  ~IsNaN(start) /\ ~IsNaN(end) /\ (end - start) > maxDuration * MsPerMinute

\* Mutation: status is left to the column default.
NewReservation_DefaultStatus(id, userId, amenityId, start, end) ==
  [id |-> id, userId |-> userId, amenityId |-> amenityId,
   startTime |-> start, endTime |-> end,
   status |-> "pending", hiddenFromUser |-> FALSE]

\* The row prisma.reservation.create inserts; hiddenFromUser defaults to false.
NewReservation(id, userId, amenityId, start, end) ==
  [id |-> id, userId |-> userId, amenityId |-> amenityId,
   startTime |-> start, endTime |-> end,
   status |-> "confirmed", hiddenFromUser |-> FALSE]

\* ------------------------------------------------------ createReservation
\* Lines 7-26: authentication, parameter presence, amenity lookup, duration
\* and time-range checks. Ok when the request goes on to the store checks.
ValidateRequest(ams, req) ==
  LET start == ParseDate(req.startTime)
      end == ParseDate(req.endTime)
  IN
  IF req.userId = NoUser THEN Unauthenticated
  ELSE IF req.amenityId = NoAmenity \/ req.startTime = Missing \/ req.endTime = Missing
    THEN MissingParameters
  ELSE IF ~AmenityExists(ams, req.amenityId) THEN AmenityNotFound
  ELSE IF DurationTooLong(start, end, ams[req.amenityId].maxDuration)
    THEN DurationExceeded
  ELSE IF Ge(start, end) THEN InvalidTimeRange
  ELSE Ok

\* A Date that is Invalid in a where-clause makes the store call throw; the
\* catch block answers 500.
QueryThrows(start, end) == IsNaN(start) \/ IsNaN(end)

\* Mutation: the same-day lookup is made before the overlap lookup.
ReservationChecks_DayFirst(store, userId, amenityId, capacity, start, end) ==
  IF QueryThrows(start, end) THEN InternalError
  ELSE IF userSameAmenityReservation(store, userId, amenityId, start)
    THEN DuplicateAmenityPerDay
  ELSE IF userOverlappingReservation(store, userId, start, end)
    THEN UserTimeConflict
  ELSE IF SlotFull(overlappingCount(store, amenityId, start, end), capacity)
    THEN CapacityFull
  ELSE Ok

\* Lines 28-79: the three store checks in the order the handler makes them.
ReservationChecks(store, userId, amenityId, capacity, start, end) ==
  IF QueryThrows(start, end) THEN InternalError
  ELSE IF userOverlappingReservation(store, userId, start, end)
    THEN UserTimeConflict
  ELSE IF userSameAmenityReservation(store, userId, amenityId, start)
    THEN DuplicateAmenityPerDay
  ELSE IF SlotFull(overlappingCount(store, amenityId, start, end), capacity)
    THEN CapacityFull
  ELSE Ok

\* The whole handler as a function of the tables and the request: the
\* response and the Reservation table it leaves.
createReservation(store, ams, id, req) ==
  LET start == ParseDate(req.startTime)
      end == ParseDate(req.endTime)
      valid == ValidateRequest(ams, req)
      checks == ReservationChecks(store, req.userId, req.amenityId,
                                  ams[req.amenityId].capacity, start, end)
  IN
  IF valid # Ok THEN [res |-> valid, store |-> store]
  ELSE IF checks # Ok THEN [res |-> checks, store |-> store]
  ELSE [res |-> Ok,
        store |-> store \cup {NewReservation(id, req.userId, req.amenityId, start, end)}]

\* ------------------------------------------------------ cancel and hide
\* prisma.reservation.findUnique({ where: { id } }): the row, if any.
FindReservation(store, id) == {r \in store : r.id = id}

\* Mutation: the update flips the status instead of setting it.
SetCancelled_Toggle(store, id) ==
  {IF r.id = id
     THEN [r EXCEPT !.status = IF @ = "cancelled" THEN "confirmed" ELSE "cancelled"]
     ELSE r : r \in store}

\* Mutation: the update also hides the reservation.
SetCancelled_AlsoHides(store, id) ==
  {IF r.id = id THEN [r EXCEPT !.status = "cancelled", !.hiddenFromUser = TRUE]
   ELSE r : r \in store}

\* prisma.reservation.update({ where: { id }, data: { status: "cancelled" } })
SetCancelled(store, id) ==
  {IF r.id = id THEN [r EXCEPT !.status = "cancelled"] ELSE r : r \in store}

\* Mutation: the update also writes status "confirmed".
SetHidden_Reconfirms(store, id) ==
  {IF r.id = id THEN [r EXCEPT !.hiddenFromUser = TRUE, !.status = "confirmed"]
   ELSE r : r \in store}

\* prisma.reservation.update({ where: { id }, data: { hiddenFromUser: true } })
SetHidden(store, id) ==
  {IF r.id = id THEN [r EXCEPT !.hiddenFromUser = TRUE] ELSE r : r \in store}

\* The response, the Reservation table left and the record sent with a 200
\* (what update returned; nothing on a rejection).
cancelReservation(store, userId, id) ==
  IF userId = NoUser THEN [res |-> Unauthorized, store |-> store, body |-> {}]
  ELSE IF FindReservation(store, id) = {}
    THEN [res |-> ReservationNotFound, store |-> store, body |-> {}]
  ELSE IF \E r \in FindReservation(store, id) : r.userId # userId
    THEN [res |-> NotAllowed, store |-> store, body |-> {}]
  ELSE [res |-> Ok, store |-> SetCancelled(store, id),
        body |-> FindReservation(SetCancelled(store, id), id)]

\* Mutation: the ownership comparison is left out.
hideReservationFromUser_NoOwnerCheck(store, userId, id) ==
  IF userId = NoUser THEN [res |-> Unauthorized, store |-> store, body |-> {}]
  ELSE IF FindReservation(store, id) = {}
    THEN [res |-> ReservationNotFound, store |-> store, body |-> {}]
  ELSE [res |-> Ok, store |-> SetHidden(store, id),
        body |-> FindReservation(SetHidden(store, id), id)]

hideReservationFromUser(store, userId, id) ==
  IF userId = NoUser THEN [res |-> Unauthorized, store |-> store, body |-> {}]
  ELSE IF FindReservation(store, id) = {}
    THEN [res |-> ReservationNotFound, store |-> store, body |-> {}]
  ELSE IF \E r \in FindReservation(store, id) : r.userId # userId
    THEN [res |-> NotAllowed, store |-> store, body |-> {}]
  ELSE [res |-> Ok, store |-> SetHidden(store, id),
        body |-> FindReservation(SetHidden(store, id), id)]

\* ---------------------------------------------------------------- listings
\* Mutation: the rows come back in descending order.
OrderByStartTimeAsc_Desc(rows) ==
  {seq \in [1..Cardinality(rows) -> rows] :
     /\ \A i, j \in DOMAIN seq : i # j => seq[i] # seq[j]
     /\ \A i, j \in DOMAIN seq : i < j => seq[i].startTime >= seq[j].startTime}

\* The orders findMany may return the rows in under
\* orderBy: { startTime: "asc" }: every arrangement of the rows with
\* startTime ascending (the order of rows with equal startTime is the
\* store's choice).
OrderByStartTimeAsc(rows) ==
  {seq \in [1..Cardinality(rows) -> rows] :
     /\ \A i, j \in DOMAIN seq : i # j => seq[i] # seq[j]
     /\ \A i, j \in DOMAIN seq : i < j => seq[i].startTime <= seq[j].startTime}

\* Mutation: the flag is tested the wrong way round.
UserReservationsWhere_Hidden(r, userId) ==
  r.userId = userId /\ r.hiddenFromUser = TRUE

\* where: { userId, hiddenFromUser: false }
UserReservationsWhere(r, userId) ==
  r.userId = userId /\ r.hiddenFromUser = FALSE

\* GET /reservations: the response, the bodies it may carry (one per order
\* the store may choose) and the Reservation table left.
getUserReservations(store, userId) ==
  IF userId = NoUser THEN [res |-> Unauthorized, bodies |-> {}, store |-> store]
  ELSE [res |-> Ok,
        bodies |-> OrderByStartTimeAsc({r \in store : UserReservationsWhere(r, userId)}),
        store |-> store]

\* A startDate or endDate of the query string: a calendar day, absent, or a
\* string that makes new Date(...) Invalid.
Days == 0..(MaxTime \div DayMs)
QueryDates == Days \cup {Missing, Malformed}

\* new Date(startDate + 'T00:00:00.000Z') and new Date(endDate + 'T23:59:59.999Z')
DayStartUTC(day) == IF day \in Days THEN day * DayMs ELSE NaN
DayEndUTC(day) == IF day \in Days THEN day * DayMs + (DayMs - 1) ELSE NaN

\* Mutation: the status filter is left out.
AmenityReservationsWhere_AnyStatus(r, amenityId, startDate, endDate) ==
  /\ r.amenityId = amenityId
  /\ IF startDate # Missing /\ endDate # Missing
       THEN r.startTime <= DayEndUTC(endDate) /\ r.endTime >= DayStartUTC(startDate)
     ELSE IF startDate # Missing THEN r.startTime >= DayStartUTC(startDate)
     ELSE IF endDate # Missing THEN r.endTime <= DayEndUTC(endDate)
     ELSE TRUE

\* Mutation: with both dates, only reservations lying wholly inside the
\* window are selected.
AmenityReservationsWhere_Inside(r, amenityId, startDate, endDate) ==
  /\ r.amenityId = amenityId
  /\ r.status = "confirmed"
  /\ IF startDate # Missing /\ endDate # Missing
       THEN r.startTime >= DayStartUTC(startDate) /\ r.endTime <= DayEndUTC(endDate)
     ELSE IF startDate # Missing THEN r.startTime >= DayStartUTC(startDate)
     ELSE IF endDate # Missing THEN r.endTime <= DayEndUTC(endDate)
     ELSE TRUE

\* The where object built at lines 153-177.
AmenityReservationsWhere(r, amenityId, startDate, endDate) ==
  /\ r.amenityId = amenityId
  /\ r.status = "confirmed"
  /\ IF startDate # Missing /\ endDate # Missing
       THEN r.startTime <= DayEndUTC(endDate) /\ r.endTime >= DayStartUTC(startDate)
     ELSE IF startDate # Missing THEN r.startTime >= DayStartUTC(startDate)
     ELSE IF endDate # Missing THEN r.endTime <= DayEndUTC(endDate)
     ELSE TRUE

\* GET /reservations/amenity/:amenityId. An Invalid Date in the where object
\* makes findMany throw; the catch block answers 500.
getAmenityReservations(store, amenityId, startDate, endDate) ==
  IF startDate = Malformed \/ endDate = Malformed
    THEN [res |-> InternalError, bodies |-> {}, store |-> store]
  ELSE [res |-> Ok,
        bodies |-> OrderByStartTimeAsc(
                     {r \in store :
                        AmenityReservationsWhere(r, amenityId, startDate, endDate)}),
        store |-> store]

\* ---------------------------------------------------------- store failures
\* The store calls of the handlers, in the order the code awaits them.
\* Mutation: the row is inserted before the three lookups.
createReservationCalls_InsertFirst ==
  <<"amenity.findUnique", "reservation.create", "reservation.findFirst",
    "reservation.findFirst", "reservation.count">>

createReservationCalls ==
  <<"amenity.findUnique", "reservation.findFirst", "reservation.findFirst",
    "reservation.count", "reservation.create">>

updateReservationCalls == <<"reservation.findUnique", "reservation.update">>

IsWrite(call) == call \in {"reservation.create", "reservation.update"}

\* How many of its store calls createReservation makes for a request: none
\* when it answers before the amenity lookup, all when it inserts.
createReservationCallsMade(store, ams, req) ==
  LET start == ParseDate(req.startTime)
      end == ParseDate(req.endTime)
  IN
  IF req.userId = NoUser \/ ValidateRequest(ams, req) = MissingParameters THEN 0
  ELSE IF ValidateRequest(ams, req) # Ok THEN 1
  ELSE IF QueryThrows(start, end)
          \/ userOverlappingReservation(store, req.userId, start, end) THEN 2
  ELSE IF userSameAmenityReservation(store, req.userId, req.amenityId, start) THEN 3
  ELSE IF SlotFull(overlappingCount(store, req.amenityId, start, end),
                   ams[req.amenityId].capacity) THEN 4
  ELSE 5

\* How many store calls cancelReservation and hideReservationFromUser make.
updateReservationCallsMade(store, userId, id) ==
  IF userId = NoUser THEN 0
  ELSE IF FindReservation(store, id) = {} THEN 1
  ELSE IF \E r \in FindReservation(store, id) : r.userId # userId THEN 1
  ELSE 2

\* A handler whose failAt-th store call rejects: the calls before it have
\* been made, the rejected call has no effect, and the catch block answers
\* 500. failAt = 0, or a call the handler never reaches: no failure.
Failing(out, store, calls, made, failAt) ==
  IF failAt \in 1..made
    THEN [res |-> InternalError,
          store |-> IF \E k \in 1..(failAt - 1) : IsWrite(calls[k])
                      THEN out.store ELSE store]
  ELSE [res |-> out.res, store |-> out.store]

createReservationFailing(store, ams, id, req, failAt) ==
  Failing(createReservation(store, ams, id, req), store, createReservationCalls,
          createReservationCallsMade(store, ams, req), failAt)

cancelReservationFailing(store, userId, id, failAt) ==
  Failing(cancelReservation(store, userId, id), store, updateReservationCalls,
          updateReservationCallsMade(store, userId, id), failAt)

hideReservationFromUserFailing(store, userId, id, failAt) ==
  Failing(hideReservationFromUser(store, userId, id), store, updateReservationCalls,
          updateReservationCallsMade(store, userId, id), failAt)

\* ---------------------------------------------------------------- accounts
\* const validRoles = ["admin", "tenant", "owner"]
validRoles == {"admin", "tenant", "owner"}

\* The users that own an apartment (Apartment.ownerId): createApartment
\* connects an owner whose role is owner or admin.
SeedApartmentOwners == {NumUsers}

\* prisma.user.delete violates Apartment_ownerId_fkey (ON DELETE RESTRICT)
\* while the user owns an apartment.
UserDeleteThrows(userId) == userId \in SeedApartmentOwners

\* prisma.reservation.deleteMany({ where: { userId } })
DeleteManyOfUser(store, userId) == {r \in store : r.userId # userId}

\* prisma.user.delete({ where: { id } })
DeleteUserRow(us, userId) == [a \in DOMAIN us \ {userId} |-> us[a]]

\* DELETE /user: the response and the Reservation and User tables left. The
\* two deletes are separate store calls: when the second throws, the first
\* has been made.
deleteUser(store, us, userId) ==
  IF userId = NoUser THEN [res |-> Unauthorized, store |-> store, users |-> us]
  ELSE IF userId \notin DOMAIN us THEN [res |-> UserNotFound, store |-> store, users |-> us]
  ELSE IF UserDeleteThrows(userId)
    THEN [res |-> InternalError, store |-> DeleteManyOfUser(store, userId), users |-> us]
  ELSE [res |-> AccountDeleted, store |-> DeleteManyOfUser(store, userId),
        users |-> DeleteUserRow(us, userId)]

\* prisma.reservation.create violates Reservation_userId_fkey when the User
\* row of the caller, whose token is still valid, is gone.
CreateThrows(us, userId) == userId \notin DOMAIN us

\* validateAdmin: the role is read from the User table, not from the token.
\* Ok when the request is passed on to the handler.
validateAdmin(us, callerId) ==
  IF callerId \notin DOMAIN us THEN AdminUserNotFound
  ELSE IF us[callerId] # "admin" THEN AdminRequired
  ELSE Ok

\* The payloads a verified token can carry: the id of an account and
\* whatever role, if any, was written into it when it was signed.
AdminTokens == [id : Accounts, role : validRoles \cup {""}]

\* Mutation: the role of the payload is believed.
validateAdminToken_TrustsToken(us, token) ==
  IF token.id \notin DOMAIN us THEN AdminUserNotFound
  ELSE IF token.role # "admin" THEN AdminRequired
  ELSE Ok

\* validateAdmin from the verified payload on: the user is looked up by
\* payload.id; payload.role is not read.
validateAdminToken(us, token) == validateAdmin(us, token.id)

\* prisma.user.count({ where: { role: "admin" } })
adminCount(us) == Cardinality({a \in DOMAIN us : us[a] = "admin"})

\* Mutation: the count is compared with zero.
wouldBeLastAdmin_Zero(us, userId) ==
  IF userId \notin DOMAIN us \/ us[userId] # "admin" THEN FALSE
  ELSE adminCount(us) = 0

wouldBeLastAdmin(us, userId) ==
  IF userId \notin DOMAIN us \/ us[userId] # "admin" THEN FALSE
  ELSE adminCount(us) = 1

\* The values a role of the body and an :id of the path can carry.
RequestRoles == validRoles \cup {"superuser", ""}
RequestAccountIds == (1..(NumAccounts + 1)) \cup {Malformed}

\* parseInt(id || ""): NaN for a path segment that is no number.
ParseInt(id) == IF id = Malformed THEN NaN ELSE id

\* PUT /admin/users/:id/role: the response and the User table left.
updateUserRole(us, id, role) ==
  LET userId == ParseInt(id) IN
  IF role \notin validRoles THEN [res |-> InvalidRole, users |-> us]
  ELSE IF IsNaN(userId) THEN [res |-> InvalidUserId, users |-> us]
  ELSE IF userId \notin DOMAIN us THEN [res |-> UserNotFound, users |-> us]
  ELSE IF us[userId] = "admin" /\ role # "admin" /\ wouldBeLastAdmin(us, userId)
    THEN [res |-> LastAdmin, users |-> us]
  ELSE [res |-> RoleUpdated, users |-> [us EXCEPT ![userId] = role]]

\* An admin request as a whole: the middleware, then, only when it calls
\* next(), the handler. The response and the User table left.
adminUpdateUserRole(us, token, id, role) ==
  IF validateAdminToken(us, token) # Ok
    THEN [res |-> validateAdminToken(us, token), users |-> us]
  ELSE updateUserRole(us, id, role)

\* --------------------------------------------------------------- amenities
\* The :id of an admin amenity request: absent from the table, an existing
\* id, an unknown id, or a path segment that is no number.
RequestAmenityPathIds == RequestAmenityIds \cup {Malformed}

\* A capacity or maxDuration of the body: undefined, or a number (zero
\* stands for every number below 1).
RequestCapacities == (0..MaxCapacity) \cup {Missing}
RequestMaxDurations == (0..MaxDurationMinutes) \cup {Missing}

\* PUT /admin/amenities/:id with a body that carries no name: the response
\* and the Amenity table left.
updateAmenity(ams, id, capacity, maxDuration) ==
  LET amenityId == ParseInt(id) IN
  IF IsNaN(amenityId) THEN [res |-> InvalidAmenityId, amenities |-> ams]
  ELSE IF ~AmenityExists(ams, amenityId) THEN [res |-> AmenityNotFound, amenities |-> ams]
  ELSE IF capacity # Missing /\ capacity < 1 THEN [res |-> InvalidCapacity, amenities |-> ams]
  ELSE IF maxDuration # Missing /\ maxDuration < 1
    THEN [res |-> InvalidMaxDuration, amenities |-> ams]
  ELSE [res |-> AmenityUpdated,
        amenities |->
          [ams EXCEPT ![amenityId] =
             [capacity |-> IF capacity # Missing THEN capacity ELSE @.capacity,
              maxDuration |-> IF maxDuration # Missing THEN maxDuration
                              ELSE @.maxDuration]]]

\* The where-clause of the count of active or future reservations.
ActiveReservationWhere(r, amenityId, now) ==
  /\ r.amenityId = amenityId
  /\ r.status \in {"confirmed", "pending"}
  /\ r.endTime >= now

activeReservations(store, amenityId, now) ==
  Cardinality({r \in store : ActiveReservationWhere(r, amenityId, now)})

\* prisma.amenity.delete violates Reservation_amenityId_fkey (ON DELETE
\* RESTRICT) while any reservation, whatever its status, names the amenity.
AmenityDeleteThrows(store, amenityId) == \E r \in store : r.amenityId = amenityId

\* prisma.amenity.delete({ where: { id } })
DeleteAmenityRow(ams, amenityId) == [a \in DOMAIN ams \ {amenityId} |-> ams[a]]

\* DELETE /admin/amenities/:id at time now: the response and the Amenity
\* table left.
deleteAmenity(store, ams, id, now) ==
  LET amenityId == ParseInt(id) IN
  IF IsNaN(amenityId) THEN [res |-> InvalidAmenityId, amenities |-> ams]
  ELSE IF ~AmenityExists(ams, amenityId)
    THEN [res |-> AmenityNoEncontrado, amenities |-> ams]
  ELSE IF activeReservations(store, amenityId, now) > 0
    THEN [res |-> AmenityHasActiveReservations, amenities |-> ams]
  ELSE IF AmenityDeleteThrows(store, amenityId)
    THEN [res |-> ErrorDeletingAmenity, amenities |-> ams]
  ELSE [res |-> AmenityDeleted, amenities |-> DeleteAmenityRow(ams, amenityId)]

\* ---------------------------------------------------------- password reset
EmailRequired == Response(400, "Email is required")
ResetLinkSent == Response(200, "Si el correo existe, se ha enviado un enlace de recuperación")
EmailSendingFailed == Response(500, "Error al enviar el correo de recuperación")
TokenAndPasswordRequired == Response(400, "Token and new password are required")
PasswordTooShort == Response(400, "Password must be at least 6 characters long")
InvalidOrExpiredToken == Response(400, "Invalid or expired reset token")
PasswordReset == Response(200, "Password reset successfully")

\* The passwords a request carries: 0 stands for every password shorter than
\* six characters, 1..NumPasswords for distinct passwords that are long
\* enough.
RequestPasswords == (0..NumPasswords) \cup {Missing}

\* bcrypt.hash(password, 12): the stored value is not the password, and
\* distinct passwords of the model have distinct hashes.
Hash(password) == NumPasswords + password

\* resetPasswordToken and resetPasswordExpires when null.
NoToken == 0
NoExpiry == -1

\* crypto.randomBytes(32).toString('hex'): a value never produced before.
FreshToken(n) == n + 1

\* The tokens a reset request carries: every value the generator can
\* produce within the bound, one it never produces, and an absent field.
RequestTokens == (1..(MaxResetTokens + 1)) \cup {Missing}

\* The emails a forgot-password request carries, named by the account that
\* registered them: NoUser is an email of no account, Missing an absent field.
RequestEmails == Users \cup {NoUser, Missing}

\* Date.now() + 3600000
ResetTokenExpiry(now) == now + ResetTokenLifetime

SeedCredentials ==
  [u \in Users |-> [password |-> Hash(1),
                    resetPasswordToken |-> NoToken,
                    resetPasswordExpires |-> NoExpiry]]

\* POST /auth/forgot-password at time now, when n tokens were generated
\* before; emailFails says whether sendPasswordResetEmail throws.
forgotPassword(creds, n, now, email, emailFails) ==
  IF email = Missing THEN [res |-> EmailRequired, credentials |-> creds, issued |-> n]
  ELSE IF email \notin DOMAIN creds
    THEN [res |-> ResetLinkSent, credentials |-> creds, issued |-> n]
  ELSE IF emailFails
    THEN [res |-> EmailSendingFailed,
          credentials |-> [creds EXCEPT ![email].resetPasswordToken = NoToken,
                                        ![email].resetPasswordExpires = NoExpiry],
          issued |-> n + 1]
  ELSE [res |-> ResetLinkSent,
        credentials |->
          [creds EXCEPT ![email].resetPasswordToken = FreshToken(n),
                        ![email].resetPasswordExpires = ResetTokenExpiry(now)],
        issued |-> n + 1]

\* Variant of the where-clause that does not look at the expiry.
ValidResetTokenWhere_NoExpiry(row, token, now) ==
  row.resetPasswordToken = token

\* The where-clause of resetPassword's findFirst.
ValidResetTokenWhere(row, token, now) ==
  /\ row.resetPasswordToken = token
  /\ row.resetPasswordExpires > now

\* POST /auth/reset-password at time now.
resetPassword(creds, now, token, newPassword) ==
  IF token = Missing \/ newPassword = Missing
    THEN [res |-> TokenAndPasswordRequired, credentials |-> creds]
  ELSE IF newPassword < 1 THEN [res |-> PasswordTooShort, credentials |-> creds]
  ELSE LET found == {u \in DOMAIN creds : ValidResetTokenWhere(creds[u], token, now)} IN
    IF found = {} THEN [res |-> InvalidOrExpiredToken, credentials |-> creds]
    ELSE LET user == CHOOSE u \in found : TRUE IN
      [res |-> PasswordReset,
       credentials |-> [creds EXCEPT ![user] = [password |-> Hash(newPassword),
                                                resetPasswordToken |-> NoToken,
                                                resetPasswordExpires |-> NoExpiry]]]

\* ------------------------------------------------------------ the machine
\* The Amenity table the handlers run against: the first amenity admits
\* MaxCapacity concurrent reservations of at most one minute, every other
\* amenity one reservation of at most MaxDurationMinutes minutes.
SeedAmenities ==
  [a \in AmenityIds |->
     IF a = 1 THEN [capacity |-> MaxCapacity, maxDuration |-> 1]
     ELSE [capacity |-> 1, maxDuration |-> MaxDurationMinutes]]

\* A request handler that has not started: no request, no locals.
NullRequest ==
  [userId |-> NoUser, amenityId |-> NoAmenity, startTime |-> Missing, endTime |-> Missing]

IdleProc ==
  [pc |-> "idle", req |-> NullRequest, capacity |-> 0, count |-> 0, res |-> NoResponse]

\* A handler that has answered: only the response remains.
DoneProc(resp) == [IdleProc EXCEPT !.pc = "done", !.res = resp]

\* The User table the handlers run against: one administrator, the owner of
\* an apartment, and tenants.
SeedUsers ==
  [a \in Accounts |->
     IF a = NumAccounts THEN "admin"
     ELSE IF a \in SeedApartmentOwners THEN "owner"
     ELSE "tenant"]

Init ==
  /\ amenities = SeedAmenities
  /\ reservations = {}
  /\ nextId = 1
  /\ proc = [p \in Procs |-> IdleProc]
  /\ users = SeedUsers
  /\ credentials = SeedCredentials
  /\ issued = 0
  /\ clock = 0

\* POST /reservations, run to completion.
Create ==
  \E req \in Requests :
    LET decided == createReservation(reservations, amenities, nextId, req)
        out == IF decided.res = Ok /\ CreateThrows(users, req.userId)
                 THEN [res |-> InternalError, store |-> reservations]
               ELSE decided
    IN
    /\ out.res = Ok => nextId <= MaxReservations
    /\ reservations' = out.store
    /\ nextId' = IF out.res = Ok THEN nextId + 1 ELSE nextId
    /\ UNCHANGED <<amenities, proc, users, authVars>>

\* PATCH /reservations/:id/cancel, run to completion.
Cancel ==
  \E userId \in Users, id \in 1..MaxReservations :
    LET out == cancelReservation(reservations, userId, id) IN
    /\ reservations' = out.store
    /\ UNCHANGED <<amenities, nextId, proc, users, authVars>>

\* PATCH /reservations/:id/hide, run to completion.
Hide ==
  \E userId \in Users, id \in 1..MaxReservations :
    LET out == hideReservationFromUser(reservations, userId, id) IN
    /\ reservations' = out.store
    /\ UNCHANGED <<amenities, nextId, proc, users, authVars>>

Next == Create \/ Cancel \/ Hide

Spec == Init /\ [][Next]_vars

\* ------------------------------------------- createReservation, step by step
\* Each await of the handler is one store step; the code between two awaits
\* runs with the step before it. A handler serves one request.

\* Lines 7-26: the request arrives, amenity.findUnique is awaited and the
\* request is validated against the amenity read.
Begin(p) ==
  /\ proc[p].pc = "idle"
  /\ \E req \in Requests :
       LET valid == ValidateRequest(amenities, req) IN
       proc' = [proc EXCEPT ![p] =
                  IF valid # Ok THEN DoneProc(valid)
                  ELSE [IdleProc EXCEPT !.pc = "userOverlap", !.req = req,
                                        !.capacity = amenities[req.amenityId].capacity]]
  /\ UNCHANGED <<amenities, reservations, nextId, users, authVars>>

\* Lines 29-48: reservation.findFirst for the caller's overlapping reservations.
CheckUserOverlap(p) ==
  /\ proc[p].pc = "userOverlap"
  /\ LET req == proc[p].req
         start == ParseDate(req.startTime)
         end == ParseDate(req.endTime)
     IN proc' = [proc EXCEPT ![p] =
                   IF QueryThrows(start, end) THEN DoneProc(InternalError)
                   ELSE IF userOverlappingReservation(reservations, req.userId, start, end)
                     THEN DoneProc(UserTimeConflict)
                   ELSE [@ EXCEPT !.pc = "sameDay"]]
  /\ UNCHANGED <<amenities, reservations, nextId, users, authVars>>

\* Lines 50-64: reservation.findFirst for the caller's reservation of the
\* amenity on the day of the start.
CheckSameDay(p) ==
  /\ proc[p].pc = "sameDay"
  /\ LET req == proc[p].req IN
     proc' = [proc EXCEPT ![p] =
                IF userSameAmenityReservation(reservations, req.userId, req.amenityId,
                                              ParseDate(req.startTime))
                  THEN DoneProc(DuplicateAmenityPerDay)
                ELSE [@ EXCEPT !.pc = "count"]]
  /\ UNCHANGED <<amenities, reservations, nextId, users, authVars>>

\* Lines 66-79: reservation.count, compared with the capacity read at line 18.
CountOverlapping(p) ==
  /\ proc[p].pc = "count"
  /\ LET req == proc[p].req
         n == overlappingCount(reservations, req.amenityId,
                               ParseDate(req.startTime), ParseDate(req.endTime))
     IN proc' = [proc EXCEPT ![p] =
                   IF SlotFull(n, proc[p].capacity) THEN DoneProc(CapacityFull)
                   ELSE [@ EXCEPT !.pc = "insert", !.count = n]]
  /\ UNCHANGED <<amenities, reservations, nextId, users, authVars>>

\* Lines 82-92: reservation.create and the answer.
Insert(p) ==
  /\ proc[p].pc = "insert"
  /\ LET req == proc[p].req IN
     reservations' = reservations \cup
       {NewReservation(nextId, req.userId, req.amenityId,
                       ParseDate(req.startTime), ParseDate(req.endTime))}
  /\ nextId' = nextId + 1
  /\ proc' = [proc EXCEPT ![p] = DoneProc(Ok)]
  /\ UNCHANGED <<amenities, users, authVars>>

NextConc ==
  \E p \in Procs :
    \/ Begin(p)
    \/ CheckUserOverlap(p)
    \/ CheckSameDay(p)
    \/ CountOverlapping(p)
    \/ Insert(p)

\* Requests served concurrently, their store steps interleaved.
SpecConc == Init /\ [][NextConc]_vars

\* ------------------------------------------------------ the account endpoint
\* DELETE /user, run to completion.
DeleteUser ==
  \E userId \in Users :
    LET out == deleteUser(reservations, users, userId) IN
    /\ reservations' = out.store
    /\ users' = out.users
    /\ UNCHANGED <<amenities, nextId, proc, authVars>>

NextAccount == Create \/ Cancel \/ Hide \/ DeleteUser

\* The requests of logged-in users to the reservation and account endpoints,
\* served one at a time.
SpecAccount == Init /\ [][NextAccount]_vars

\* ------------------------------------------------------- the admin endpoint
\* PUT /admin/users/:id/role behind validateAdmin, run to completion.
UpdateUserRole ==
  \E callerId \in Accounts, id \in RequestAccountIds, role \in RequestRoles :
    /\ users' = IF validateAdmin(users, callerId) = Ok
                  THEN updateUserRole(users, id, role).users
                ELSE users
    /\ UNCHANGED <<amenities, reservations, nextId, proc, authVars>>

NextAdmin == UpdateUserRole

\* Role changes requested one at a time.
SpecAdmin == Init /\ [][NextAdmin]_vars

NextAdminAccount == UpdateUserRole \/ DeleteUser

\* Role changes and account deletions, one at a time.
SpecAdminAccount == Init /\ [][NextAdminAccount]_vars

\* ------------------------------------- the admin endpoint, store call by call
\* A role request in flight: the :id and the role of the request, and the
\* await it has reached.
RoleProc(pc, userId, role) == [pc |-> pc, userId |-> userId, role |-> role]

\* Lines 128-149 behind validateAdmin: the middleware reads the caller's row
\* and the handler checks the role and the :id; a request that is answered
\* here leaves nothing behind.
RoleBegin(p) ==
  /\ proc[p].pc = "idle"
  /\ \E callerId \in Accounts, id \in RequestAccountIds, role \in RequestRoles :
       proc' = [proc EXCEPT ![p] =
                  IF /\ validateAdmin(users, callerId) = Ok
                     /\ role \in validRoles
                     /\ ~IsNaN(ParseInt(id))
                    THEN RoleProc("findTarget", ParseInt(id), role)
                  ELSE IdleProc]
  /\ UNCHANGED <<amenities, reservations, nextId, users, authVars>>

\* Lines 152-163: user.findUnique for the target; 404 when it is gone, the
\* last-admin protection when an admin is to lose the role.
RoleFindTarget(p) ==
  /\ proc[p].pc = "findTarget"
  /\ proc' = [proc EXCEPT ![p] =
                IF proc[p].userId \notin DOMAIN users THEN IdleProc
                ELSE IF users[proc[p].userId] = "admin" /\ proc[p].role # "admin"
                  THEN [@ EXCEPT !.pc = "lastAdminUser"]
                ELSE [@ EXCEPT !.pc = "update"]]
  /\ UNCHANGED <<amenities, reservations, nextId, users, authVars>>

\* wouldBeLastAdmin, lines 1425-1432: user.findUnique; false when the user is
\* no admin.
RoleLastAdminUser(p) ==
  /\ proc[p].pc = "lastAdminUser"
  /\ proc' = [proc EXCEPT ![p] =
                IF proc[p].userId \in DOMAIN users /\ users[proc[p].userId] = "admin"
                  THEN [@ EXCEPT !.pc = "count"]
                ELSE [@ EXCEPT !.pc = "update"]]
  /\ UNCHANGED <<amenities, reservations, nextId, users, authVars>>

\* wouldBeLastAdmin, lines 1434-1438, and lines 165-171: user.count of the
\* admins; 403 when it is one.
RoleCountAdmins(p) ==
  /\ proc[p].pc = "count"
  /\ proc' = [proc EXCEPT ![p] =
                IF adminCount(users) = 1 THEN IdleProc
                ELSE [@ EXCEPT !.pc = "update"]]
  /\ UNCHANGED <<amenities, reservations, nextId, users, authVars>>

\* Lines 175-184: user.update, which throws when the row is gone.
RoleUpdate(p) ==
  /\ proc[p].pc = "update"
  /\ users' = IF proc[p].userId \in DOMAIN users
                THEN [users EXCEPT ![proc[p].userId] = proc[p].role]
              ELSE users
  /\ proc' = [proc EXCEPT ![p] = IdleProc]
  /\ UNCHANGED <<amenities, reservations, nextId, authVars>>

NextAdminConc ==
  \/ \E p \in Procs :
       \/ RoleBegin(p)
       \/ RoleFindTarget(p)
       \/ RoleLastAdminUser(p)
       \/ RoleCountAdmins(p)
       \/ RoleUpdate(p)
  \/ DeleteUser

\* Role changes in flight together, their store calls interleaved, and
\* account deletions.
SpecAdminConc == Init /\ [][NextAdminConc]_vars

\* ------------------------------------------------- the amenity endpoints
\* PUT /admin/amenities/:id, requested by an administrator, run to
\* completion.
UpdateAmenity ==
  \E id \in RequestAmenityPathIds, capacity \in RequestCapacities,
     maxDuration \in RequestMaxDurations :
    /\ amenities' = updateAmenity(amenities, id, capacity, maxDuration).amenities
    /\ UNCHANGED <<reservations, nextId, proc, users, authVars>>

\* DELETE /admin/amenities/:id, requested by an administrator, run to
\* completion at some time of the clock.
DeleteAmenity ==
  \E id \in RequestAmenityPathIds, now \in Times :
    /\ amenities' = deleteAmenity(reservations, amenities, id, now).amenities
    /\ UNCHANGED <<reservations, nextId, proc, users, authVars>>

NextAmenity == Create \/ UpdateAmenity \/ DeleteAmenity

\* Reservation requests mixed with the administrators' amenity requests,
\* served one at a time.
SpecAmenity == Init /\ [][NextAmenity]_vars

\* --------------------------------------------- the password-reset endpoints
\* POST /auth/forgot-password, run to completion.
ForgotPassword ==
  \E email \in RequestEmails, emailFails \in BOOLEAN :
    LET out == forgotPassword(credentials, issued, clock, email, emailFails) IN
    /\ out.issued <= MaxResetTokens
    /\ credentials' = out.credentials
    /\ issued' = out.issued
    /\ UNCHANGED <<amenities, reservations, nextId, proc, users, clock>>

\* POST /auth/reset-password, run to completion.
ResetPassword ==
  \E token \in RequestTokens, newPassword \in RequestPasswords :
    /\ credentials' = resetPassword(credentials, clock, token, newPassword).credentials
    /\ UNCHANGED <<amenities, reservations, nextId, proc, users, issued, clock>>

\* Time passes.
Tick ==
  /\ clock < MaxClock
  /\ clock' = clock + 1
  /\ UNCHANGED <<amenities, reservations, nextId, proc, users, credentials, issued>>

NextAuth == ForgotPassword \/ ResetPassword \/ Tick

\* The password-reset requests, served one at a time, while time passes.
SpecAuth == Init /\ [][NextAuth]_vars

\* =================================================================== claims
Confirmed(store) == {r \in store : r.status = "confirmed"}
Cancelled(store) == {r \in store : r.status = "cancelled"}

\* The confirmed reservations of amenity a that are active at instant t.
ActiveAt(store, a, t) ==
  {r \in Confirmed(store) : r.amenityId = a /\ r.startTime <= t /\ t < r.endTime}

\* [a, b) and [c, d) overlap iff a < d and c < b.
Overlap(a, b, c, d) == a < d /\ c < b

\* The calendar day a timestamp falls on.
CalendarDay(t) == t \div DayMs

Decide(store, req) == createReservation(store, amenities, nextId, req)

\* C1: with requests served one at a time and capacities fixed, at every
\* instant the confirmed reservations of an amenity active at that instant
\* number at most the amenity's capacity.
C1_CapacityNeverExceeded ==
  \A a \in DOMAIN amenities, t \in Times :
    Cardinality(ActiveAt(reservations, a, t)) <= amenities[a].capacity

\* An amenity that admits more than one reservation is booked to its
\* capacity at some instant, and a further user's request covering that
\* instant is answered 'Time slot full'.
C1_Witness ==
  \E a \in DOMAIN amenities, t \in Times :
    /\ amenities[a].capacity > 1
    /\ Cardinality(ActiveAt(reservations, a, t)) = amenities[a].capacity
    /\ \E req \in Requests :
         /\ req.amenityId = a
         /\ req.startTime \in Times /\ req.endTime \in Times
         /\ req.startTime <= t /\ t < req.endTime
         /\ Decide(reservations, req).res = CapacityFull

\* C2: with the store steps of concurrent requests interleaved, a request
\* that is about to insert passed the capacity check on the count it read,
\* and its insert persists one confirmed reservation whatever the table has
\* become since; the witness is the over-booked table this leads to.
C2_InsertAfterStaleCheck ==
  [][\A p \in Procs :
       (proc[p].pc = "insert" /\ proc'[p].pc # "insert") =>
         /\ proc[p].count < proc[p].capacity
         /\ proc'[p].res = Ok
         /\ Cardinality(reservations') = Cardinality(reservations) + 1
         /\ \E r \in reservations' \ reservations :
              /\ r.userId = proc[p].req.userId
              /\ r.amenityId = proc[p].req.amenityId
              /\ r.startTime = proc[p].req.startTime
              /\ r.endTime = proc[p].req.endTime
              /\ r.status = "confirmed"]_vars

\* Two requests of different users for the same amenity and window have both
\* been answered 200 and more confirmed reservations overlap than the
\* amenity's capacity.
C2_Witness ==
  /\ \A p \in Procs : proc[p].pc = "done" /\ proc[p].res = Ok
  /\ \E r1, r2 \in Confirmed(reservations) :
       /\ r1.userId # r2.userId
       /\ r1.amenityId = r2.amenityId
       /\ r1.startTime = r2.startTime /\ r1.endTime = r2.endTime
       /\ Cardinality(ActiveAt(reservations, r1.amenityId, r1.startTime))
            > amenities[r1.amenityId].capacity

\* C3: with requests served one at a time, no user has two distinct confirmed
\* reservations, on the same or on different amenities, whose intervals
\* overlap.
C3_NoUserOverlap ==
  \A r1, r2 \in Confirmed(reservations) :
    (r1.id # r2.id /\ r1.userId = r2.userId) =>
      ~Overlap(r1.startTime, r1.endTime, r2.startTime, r2.endTime)

\* A user holds confirmed reservations on two amenities, and a request of
\* that user for a window overlapping one of them on the other amenity is
\* answered 'You already have a reservation during this time'.
C3_Witness ==
  \E r1, r2 \in Confirmed(reservations) :
    /\ r1.userId = r2.userId /\ r1.amenityId # r2.amenityId
    /\ \E req \in Requests :
         /\ req.userId = r1.userId /\ req.amenityId = r2.amenityId
         /\ req.startTime \in Times /\ req.endTime \in Times
         /\ Overlap(r1.startTime, r1.endTime, req.startTime, req.endTime)
         /\ Decide(reservations, req).res = UserTimeConflict

\* C4: with requests served one at a time, no user has two distinct confirmed
\* reservations of the same amenity that start on the same calendar day.
C4_OnePerAmenityPerDay ==
  \A r1, r2 \in Confirmed(reservations) :
    (r1.id # r2.id /\ r1.userId = r2.userId /\ r1.amenityId = r2.amenityId) =>
      CalendarDay(r1.startTime) # CalendarDay(r2.startTime)

\* A user holds confirmed reservations of one amenity on two days, and a
\* request of that user for the amenity that overlaps none of the user's
\* reservations is answered 'You already have a reservation ... on this day'.
C4_Witness ==
  \E r1, r2 \in Confirmed(reservations) :
    /\ r1.id # r2.id /\ r1.userId = r2.userId /\ r1.amenityId = r2.amenityId
    /\ \E req \in Requests :
         /\ req.userId = r1.userId /\ req.amenityId = r1.amenityId
         /\ req.startTime \in Times /\ req.endTime \in Times
         /\ ~Overlap(r1.startTime, r1.endTime, req.startTime, req.endTime)
         /\ ~Overlap(r2.startTime, r2.endTime, req.startTime, req.endTime)
         /\ Decide(reservations, req).res = DuplicateAmenityPerDay

\* The reference decision: the seven checks in their fixed order, the first
\* one that fails giving the answer.
RefDecision(store, ams, req) ==
  LET s == req.startTime
      e == req.endTime
      mine == {r \in Confirmed(store) : r.userId = req.userId}
  IN
  IF req.amenityId = NoAmenity \/ s = Missing \/ e = Missing THEN MissingParameters
  ELSE IF req.amenityId \notin DOMAIN ams THEN AmenityNotFound
  ELSE IF e - s > ams[req.amenityId].maxDuration * MsPerMinute THEN DurationExceeded
  ELSE IF s >= e THEN InvalidTimeRange
  ELSE IF \E r \in mine : Overlap(r.startTime, r.endTime, s, e) THEN UserTimeConflict
  ELSE IF \E r \in mine : r.amenityId = req.amenityId
                          /\ CalendarDay(r.startTime) = CalendarDay(s)
    THEN DuplicateAmenityPerDay
  ELSE IF Cardinality({r \in Confirmed(store) :
                         r.amenityId = req.amenityId
                         /\ Overlap(r.startTime, r.endTime, s, e)})
          >= ams[req.amenityId].capacity
    THEN CapacityFull
  ELSE Ok

\* The requests the reference decides: checks 1 and 2 need no timestamps, the
\* later ones need both to be well-formed.
RefDefined(ams, req) ==
  \/ req.amenityId = NoAmenity \/ req.startTime = Missing \/ req.endTime = Missing
  \/ req.amenityId \notin DOMAIN ams
  \/ (req.startTime \in Times /\ req.endTime \in Times)

C5_Reasons ==
  {MissingParameters, AmenityNotFound, DurationExceeded, InvalidTimeRange,
   UserTimeConflict, DuplicateAmenityPerDay, CapacityFull, Ok}

C6_SameWindowOnly(a, s, e) ==
  /\ \A r \in reservations :
       /\ r.amenityId = a /\ r.startTime = s /\ r.endTime = e
       /\ r.status = "confirmed"
  /\ \A r1, r2 \in reservations : r1.userId = r2.userId => r1 = r2

\* C6: when distinct users holding no other reservations ask one after
\* another for the same valid window of an amenity with capacity c, the
\* requests accepted so far never number more than c, the next user is
\* accepted while fewer than c were accepted and is answered 'Time slot full'
\* from then on.
C6_FirstCAccepted ==
  \A a \in DOMAIN amenities, s \in Times, e \in Times :
    (/\ s < e
     /\ e - s <= amenities[a].maxDuration * MsPerMinute
     /\ C6_SameWindowOnly(a, s, e)) =>
      /\ Cardinality(reservations) <= amenities[a].capacity
      /\ \A u \in Users \ {r.userId : r \in reservations} :
           LET out == Decide(reservations,
                             [userId |-> u, amenityId |-> a,
                              startTime |-> s, endTime |-> e])
           IN IF Cardinality(reservations) < amenities[a].capacity
                THEN out.res = Ok /\ Cardinality(out.store) = Cardinality(reservations) + 1
                ELSE out.res = CapacityFull /\ out.store = reservations

\* As many users as the amenity's capacity, more than one, hold the window
\* and the next user's request for it is answered 'Time slot full'.
C6_Witness ==
  \E a \in DOMAIN amenities, s \in Times, e \in Times :
    /\ C6_SameWindowOnly(a, s, e)
    /\ amenities[a].capacity > 1
    /\ Cardinality(reservations) = amenities[a].capacity
    /\ \E u \in Users \ {r.userId : r \in reservations} :
         Decide(reservations,
                [userId |-> u, amenityId |-> a, startTime |-> s, endTime |-> e]).res
           = CapacityFull

\* C7 as stated: a request with endTime < startTime is answered 'Start time
\* must be before end time' whether or not the amenity exists.
C7_Original ==
  \A req \in Requests :
    (/\ req.amenityId # NoAmenity
     /\ req.startTime \in Times /\ req.endTime \in Times
     /\ req.endTime < req.startTime) =>
      Decide(reservations, req).res = InvalidTimeRange

\* C7 as amended: a request with endTime < startTime that names an existing
\* amenity is answered 'Start time must be before end time' whatever the
\* amenity's maxDuration and capacity and whatever reservations exist; one
\* that names an unknown amenity is answered 'Amenity not found'. Neither
\* changes the table.
C7_InvalidRangeOfKnownAmenity ==
  \A req \in Requests :
    (/\ req.amenityId # NoAmenity
     /\ req.startTime \in Times /\ req.endTime \in Times
     /\ req.endTime < req.startTime) =>
      LET out == Decide(reservations, req) IN
      /\ out.store = reservations
      /\ out.res = IF req.amenityId \in DOMAIN amenities
                     THEN InvalidTimeRange ELSE AmenityNotFound

\* A user holds a confirmed reservation, and that user's request for the
\* same amenity with the reservation's start and end exchanged is answered
\* 'Start time must be before end time'.
C7_Witness ==
  \E r \in Confirmed(reservations) :
    Decide(reservations,
           [userId |-> r.userId, amenityId |-> r.amenityId,
            startTime |-> r.endTime, endTime |-> r.startTime]).res = InvalidTimeRange

\* The answer the tests expect for a timestamp that is no date.
InvalidDateFormat == Response(400, "Invalid date format")

\* C8 as stated: a request for an existing amenity whose startTime or endTime
\* is present but malformed is answered 400 'Invalid date format' and
\* creates no reservation.
C8_MalformedDateRejected ==
  \A req \in Requests :
    (/\ req.amenityId \in DOMAIN amenities
     /\ req.startTime # Missing /\ req.endTime # Missing
     /\ (req.startTime = Malformed \/ req.endTime = Malformed)) =>
      LET out == Decide(reservations, req) IN
      out.res = InvalidDateFormat /\ out.store = reservations

\* C9: the answer of createReservation, and the reservation it inserts, do
\* not depend on cancelled reservations: every request is decided against
\* the table as it is against the table's confirmed reservations alone, so
\* two tables that differ only in cancelled reservations decide alike.
C9_CancelledIgnored ==
  \A req \in Requests :
    LET with == Decide(reservations, req)
        without == Decide(Confirmed(reservations), req)
    IN /\ with.res = without.res
       /\ with.store \ reservations = without.store \ Confirmed(reservations)

\* A cancelled reservation and a later confirmed one of the same user for
\* the same amenity and window coexist.
C9_Witness ==
  \E r1 \in Cancelled(reservations), r2 \in Confirmed(reservations) :
    /\ r1.userId = r2.userId /\ r1.amenityId = r2.amenityId
    /\ r1.startTime = r2.startTime /\ r1.endTime = r2.endTime
    /\ r1.id < r2.id

\* The table with no reservation hidden.
AllVisible(store) == {[r EXCEPT !.hiddenFromUser = FALSE] : r \in store}

\* C10: the answer of createReservation, and the reservation it inserts, do
\* not depend on hiddenFromUser: every request is decided against the table
\* as it is against the same table with nothing hidden, so two tables that
\* differ only in hiddenFromUser flags decide alike.
C10_HiddenIgnored ==
  \A req \in Requests :
    LET here == Decide(reservations, req)
        other == Decide(AllVisible(reservations), req)
    IN /\ here.res = other.res
       /\ here.store \ reservations = other.store \ AllVisible(reservations)

\* Every reservation is confirmed and hidden by its owner, and against them
\* some request is turned away by the overlap check, some by the one-per-day
\* check and some by the capacity check.
C10_Witness ==
  /\ reservations # {}
  /\ \A r \in reservations : r.status = "confirmed" /\ r.hiddenFromUser
  /\ \A reason \in {UserTimeConflict, DuplicateAmenityPerDay, CapacityFull} :
       \E req \in Requests : Decide(reservations, req).res = reason

\* The ids a :id parameter can carry: those the sequence can have issued and
\* one it has not.
RequestReservationIds == 1..(MaxReservations + 1)

\* The rows of a table that another table does not hold unchanged.
ChangedRows(before, after) == {r \in before : r \notin after}

\* C11: cancelReservation and hideReservationFromUser answer 404
\* 'Reservation not found' when no reservation has the id and 403 'Not
\* allowed' when the reservation belongs to another user, changing no
\* reservation in either case; whatever they answer, the only reservations
\* they change belong to the caller.
C11_OwnerOnly ==
  \A userId \in Users, id \in RequestReservationIds :
    \A out \in {cancelReservation(reservations, userId, id),
                hideReservationFromUser(reservations, userId, id)} :
      /\ FindReservation(reservations, id) = {} =>
           out.res = ReservationNotFound /\ out.store = reservations
      /\ (\E r \in FindReservation(reservations, id) : r.userId # userId) =>
           out.res = NotAllowed /\ out.store = reservations
      /\ \A r \in ChangedRows(reservations, out.store) : r.userId = userId
      /\ {r.id : r \in out.store} = {r.id : r \in reservations}

\* A confirmed, visible reservation exists; another user's cancel and hide
\* of it are answered 403, and the owner's cancel and hide of an id that no
\* reservation has are answered 404.
C11_Witness ==
  \E r \in Confirmed(reservations), other \in Users, id \in RequestReservationIds :
    /\ other # r.userId /\ ~r.hiddenFromUser
    /\ cancelReservation(reservations, other, r.id).res = NotAllowed
    /\ hideReservationFromUser(reservations, other, r.id).res = NotAllowed
    /\ FindReservation(reservations, id) = {}
    /\ cancelReservation(reservations, r.userId, id).res = ReservationNotFound
    /\ hideReservationFromUser(reservations, r.userId, id).res = ReservationNotFound

\* C12: for every reservation, the owner's cancel issued a second time is
\* answered 200 like the first, leaves the table the first left and returns
\* the record the first returned, whose status is cancelled.
C12_CancelIdempotent ==
  \A r \in reservations :
    LET once == cancelReservation(reservations, r.userId, r.id)
        twice == cancelReservation(once.store, r.userId, r.id)
    IN /\ once.res = Ok /\ twice.res = Ok
       /\ twice.store = once.store
       /\ twice.body = once.body
       /\ once.body = {[r EXCEPT !.status = "cancelled"]}

\* A reservation is confirmed, so that the first cancel changes the table
\* and the second finds it already cancelled.
C12_Witness ==
  \E r \in Confirmed(reservations) :
    LET once == cancelReservation(reservations, r.userId, r.id) IN
    /\ once.store # reservations
    /\ cancelReservation(once.store, r.userId, r.id).res = Ok

\* C13: a cancel answered 200 leaves the table with the status of the
\* targeted reservation set to cancelled and nothing else changed, and a hide
\* answered 200 leaves it with hiddenFromUser of the targeted reservation set
\* to true and nothing else changed: every other field of that reservation
\* and every other reservation are as before.
C13_FrameOfCancelAndHide ==
  \A userId \in Users, id \in RequestReservationIds :
    LET cancelled == cancelReservation(reservations, userId, id)
        hidden == hideReservationFromUser(reservations, userId, id)
    IN /\ cancelled.res = Ok =>
            cancelled.store =
              {IF r.id = id
                 THEN [id |-> r.id, userId |-> r.userId, amenityId |-> r.amenityId,
                       startTime |-> r.startTime, endTime |-> r.endTime,
                       status |-> "cancelled", hiddenFromUser |-> r.hiddenFromUser]
                 ELSE r : r \in reservations}
       /\ hidden.res = Ok =>
            hidden.store =
              {IF r.id = id
                 THEN [id |-> r.id, userId |-> r.userId, amenityId |-> r.amenityId,
                       startTime |-> r.startTime, endTime |-> r.endTime,
                       status |-> r.status, hiddenFromUser |-> TRUE]
                 ELSE r : r \in reservations}

\* The table holds a hidden confirmed reservation and a visible cancelled
\* one: the owner's cancel of the first is answered 200 and leaves it hidden,
\* the owner's hide of the second is answered 200 and leaves it cancelled.
C13_Witness ==
  \E r1, r2 \in reservations :
    /\ r1.status = "confirmed" /\ r1.hiddenFromUser
    /\ r2.status = "cancelled" /\ ~r2.hiddenFromUser
    /\ cancelReservation(reservations, r1.userId, r1.id).res = Ok
    /\ hideReservationFromUser(reservations, r2.userId, r2.id).res = Ok

\* The rows a response body carries.
RowsOf(body) == {body[i] : i \in DOMAIN body}

\* A body holds each row once, startTime ascending.
AscendingByStartTime(body) ==
  /\ \A i, j \in DOMAIN body : i # j => body[i] # body[j]
  /\ \A i, j \in DOMAIN body : i < j => body[i].startTime <= body[j].startTime

Visible(r) == r.status = "confirmed" /\ ~r.hiddenFromUser

\* Every order in which GET /reservations may answer user u holds row r.
Listed(store, r) ==
  LET out == getUserReservations(store, r.userId) IN
  /\ out.res = Ok
  /\ out.bodies # {}
  /\ \A body \in out.bodies : r \in RowsOf(body)

C15_UserListing ==
  \A u \in Users :
    LET out == getUserReservations(reservations, u) IN
    /\ out.res = Ok
    /\ out.store = reservations
    /\ out.bodies # {}
    /\ \A body \in out.bodies :
         /\ RowsOf(body) = {r \in reservations : r.userId = u /\ ~r.hiddenFromUser}
         /\ AscendingByStartTime(body)

\* A user has two visible reservations, a cancelled one and a confirmed one,
\* of which the one created later starts earlier: the list holds both, the
\* later-created first.
C15_Witness ==
  \E r1, r2 \in reservations :
    /\ r1.userId = r2.userId /\ r1.id < r2.id /\ r2.startTime < r1.startTime
    /\ ~r1.hiddenFromUser /\ ~r2.hiddenFromUser
    /\ r1.status = "cancelled" /\ r2.status = "confirmed"
    /\ \E body \in getUserReservations(reservations, r1.userId).bodies :
         body = <<r2, r1>>

\* C16: getAmenityReservations for amenity a without startDate and endDate
\* answers 200 with exactly the reservations whose amenityId is a and whose
\* status is confirmed, hidden ones included, each once and startTime
\* ascending, and leaves the table unchanged.
C16_AmenityListing ==
  \A a \in RequestAmenityIds :
    LET out == getAmenityReservations(reservations, a, Missing, Missing) IN
    /\ out.res = Ok
    /\ out.store = reservations
    /\ out.bodies # {}
    /\ \A body \in out.bodies :
         /\ RowsOf(body) = {r \in reservations : r.amenityId = a /\ r.status = "confirmed"}
         /\ AscendingByStartTime(body)

\* An amenity has a cancelled reservation and a confirmed one that its owner
\* has hidden: the list holds the hidden one alone.
C16_Witness ==
  \E r1, r2 \in reservations :
    /\ r1.amenityId = r2.amenityId
    /\ r1.status = "cancelled"
    /\ r2.status = "confirmed" /\ r2.hiddenFromUser
    /\ getAmenityReservations(reservations, r1.amenityId, Missing, Missing).bodies
         = {<<r2>>}

\* C17: under any sequence of requests to the reservation endpoints every
\* reservation has status confirmed or cancelled, never pending, and a
\* reservation that is cancelled is cancelled after the next request.
C17_CancelledForever ==
  /\ [](\A r \in reservations : r.status \in {"confirmed", "cancelled"})
  /\ [][\A r \in reservations :
          r.status = "cancelled" =>
            \E q \in reservations' : q.id = r.id /\ q.status = "cancelled"]_vars

\* A reservation was cancelled, then hidden, and its user then booked the
\* same amenity and window again: the first is still cancelled.
C17_Witness ==
  \E r, q \in reservations :
    /\ r.id < q.id /\ r.userId = q.userId /\ r.amenityId = q.amenityId
    /\ r.startTime = q.startTime /\ r.endTime = q.endTime
    /\ r.status = "cancelled" /\ r.hiddenFromUser
    /\ q.status = "confirmed"

\* C18 as stated: under any sequence of requests of logged-in users to the
\* reservation endpoints and to DELETE /user, every reservation in the table
\* is still in the table after the next request.
C18_NoRowRemoved ==
  [][\A r \in reservations : \E q \in reservations' : q.id = r.id]_vars

Admins(us) == {a \in DOMAIN us : us[a] = "admin"}

\* C20: with role changes requested one at a time, some user has role admin
\* in every state; a request that would make the only admin a tenant or an
\* owner is answered 403 and leaves the User table unchanged, one that
\* demotes one of several admins removes that admin alone, and no request,
\* whatever id and role it carries, leaves the table without an admin.
C20_AdminRemains ==
  /\ Admins(users) # {}
  /\ \A id \in Admins(users), role \in validRoles \ {"admin"} :
       LET out == updateUserRole(users, id, role) IN
       IF Admins(users) = {id}
         THEN out.res = LastAdmin /\ out.users = users
         ELSE out.res = RoleUpdated /\ Admins(out.users) = Admins(users) \ {id}
  /\ \A id \in RequestAccountIds, role \in RequestRoles :
       Admins(updateUserRole(users, id, role).users) # {}

\* Role changes have moved the admin role: the only admin is a user who was
\* none at the start, the seeded admin is a tenant, and the request to make
\* the only admin an owner is answered 403.
C20_Witness ==
  \E id \in DOMAIN users :
    /\ Admins(users) = {id}
    /\ SeedUsers[id] # "admin"
    /\ \A a \in DOMAIN users : SeedUsers[a] = "admin" => users[a] = "tenant"
    /\ updateUserRole(users, id, "owner").res = LastAdmin

\* C19: when a store call that createReservation, cancelReservation or
\* hideReservationFromUser makes for a request fails, whichever call it is,
\* the answer is 500 'Internal server error' and the Reservation table is as
\* it was before the request.
C19_StoreFailure ==
  /\ \A req \in Requests :
       \A failAt \in 1..createReservationCallsMade(reservations, amenities, req) :
         LET out == createReservationFailing(reservations, amenities, nextId, req, failAt)
         IN out.res = InternalError /\ out.store = reservations
  /\ \A userId \in Users, id \in RequestReservationIds :
       \A failAt \in 1..updateReservationCallsMade(reservations, userId, id) :
         /\ cancelReservationFailing(reservations, userId, id, failAt)
              = [res |-> InternalError, store |-> reservations]
         /\ hideReservationFromUserFailing(reservations, userId, id, failAt)
              = [res |-> InternalError, store |-> reservations]

\* A request that is accepted when the store works is answered 500 and
\* inserts nothing when the insert fails, and the owner's cancel and hide of
\* a confirmed, visible reservation are answered 500 and leave it confirmed
\* and visible when the update fails.
C19_Witness ==
  /\ \E req \in Requests :
       /\ Decide(reservations, req).res = Ok
       /\ createReservationCallsMade(reservations, amenities, req)
            = Len(createReservationCalls)
       /\ createReservationFailing(reservations, amenities, nextId, req,
                                   Len(createReservationCalls)).store = reservations
  /\ \E r \in reservations :
       /\ Visible(r)
       /\ cancelReservation(reservations, r.userId, r.id).store # reservations
       /\ updateReservationCallsMade(reservations, r.userId, r.id)
            = Len(updateReservationCalls)
       /\ cancelReservationFailing(reservations, r.userId, r.id,
                                   Len(updateReservationCalls)).res = InternalError
       /\ hideReservationFromUserFailing(reservations, r.userId, r.id,
                                         Len(updateReservationCalls)).store = reservations

\* C21: validateAdmin passes a request on exactly when the user the token
\* names exists in the User table with role admin, whatever role the token
\* carries; a token of a user who is no admin any more is answered 403, one
\* of a user who no longer exists 401, and in both cases the handler is not
\* run: the User table is as before.
C21_AdminCheckedAgainstStore ==
  \A token \in AdminTokens :
    /\ validateAdminToken(users, token) =
         (IF token.id \notin DOMAIN users THEN AdminUserNotFound
          ELSE IF users[token.id] # "admin" THEN AdminRequired
          ELSE Ok)
    /\ validateAdminToken(users, token) # Ok =>
         \A id \in RequestAccountIds, role \in RequestRoles :
           adminUpdateUserRole(users, token, id, role)
             = [res |-> validateAdminToken(users, token), users |-> users]

\* The seeded admin has been demoted and another account promoted and then
\* deleted: the old token of the first, carrying role admin, is answered
\* 403, that of the second 401, and the remaining admin's request passes.
C21_Witness ==
  \E demoted, deleted \in Accounts, admin \in DOMAIN users :
    /\ SeedUsers[demoted] = "admin"
    /\ demoted \in DOMAIN users /\ users[demoted] # "admin"
    /\ deleted \notin DOMAIN users
    /\ users[admin] = "admin"
    /\ validateAdminToken(users, [id |-> demoted, role |-> "admin"]) = AdminRequired
    /\ validateAdminToken(users, [id |-> deleted, role |-> "admin"]) = AdminUserNotFound
    /\ validateAdminToken(users, [id |-> admin, role |-> ""]) = Ok

\* C22 as stated: deleteAmenity, asked at time now to delete an existing
\* amenity, answers 409 and leaves the Amenity table unchanged when the
\* amenity has a confirmed or pending reservation that ends at or after now,
\* and otherwise (the amenity has no reservation, or only cancelled or ended
\* ones) removes the amenity and answers 204.
C22_DeletedUnlessActive ==
  \A id \in DOMAIN amenities, now \in Times :
    LET out == deleteAmenity(reservations, amenities, id, now) IN
    IF \E r \in reservations :
         /\ r.amenityId = id
         /\ r.status \in {"confirmed", "pending"}
         /\ r.endTime >= now
      THEN out.res = AmenityHasActiveReservations /\ out.amenities = amenities
      ELSE out.res = AmenityDeleted /\ id \notin DOMAIN out.amenities

\* C28 as stated: with updateAmenity requests mixed with reservation
\* requests, at every instant the confirmed reservations of an amenity
\* active at that instant number at most the amenity's capacity.
C28_CapacityKeptUnderUpdate ==
  \A a \in DOMAIN amenities, t \in Times :
    Cardinality(ActiveAt(reservations, a, t)) <= amenities[a].capacity

\* C23: resetPassword with a well-formed body accepts a token exactly when
\* some user currently stores that token and the clock is before the stored
\* expiry; on acceptance that user's password becomes the hash of the new
\* password, the stored token and expiry are cleared, no other user changes,
\* and a further resetPassword with the same token at that or any later time
\* answers 'Invalid or expired reset token' and changes nothing; a token that
\* is unknown, expired or already used is answered 'Invalid or expired reset
\* token' and no password or token changes. Whenever a step stores a new
\* token for a user, its expiry is ResetTokenLifetime (one hour) after the
\* time of that step.
C23_Holders(token) ==
  {u \in DOMAIN credentials :
     /\ credentials[u].resetPasswordToken = token
     /\ clock < credentials[u].resetPasswordExpires}

C23_AcceptedWhileStoredAndFresh ==
  \A token \in RequestTokens \ {Missing}, newPassword \in 1..NumPasswords :
    LET out == resetPassword(credentials, clock, token, newPassword) IN
    IF C23_Holders(token) # {}
      THEN /\ out.res = PasswordReset
           /\ \A u \in DOMAIN credentials :
                IF u \in C23_Holders(token)
                  THEN out.credentials[u] = [password |-> Hash(newPassword),
                                             resetPasswordToken |-> NoToken,
                                             resetPasswordExpires |-> NoExpiry]
                  ELSE out.credentials[u] = credentials[u]
           /\ \A later \in clock..MaxClock, again \in 1..NumPasswords :
                LET second == resetPassword(out.credentials, later, token, again) IN
                second.res = InvalidOrExpiredToken /\ second.credentials = out.credentials
      ELSE out.res = InvalidOrExpiredToken /\ out.credentials = credentials

C23_ExpiryOneHourAfterIssue ==
  \A u \in DOMAIN credentials :
    (/\ credentials'[u].resetPasswordToken # NoToken
     /\ credentials'[u].resetPasswordToken # credentials[u].resetPasswordToken)
      => credentials'[u].resetPasswordExpires = clock + ResetTokenLifetime

C23_ResetToken ==
  /\ [](C23_AcceptedWhileStoredAndFresh)
  /\ [][C23_ExpiryOneHourAfterIssue]_vars

\* A state in which one user's password was reset with a token (now cleared)
\* and another user still stores a token that has expired.
C23_Witness ==
  \E u, v \in DOMAIN credentials :
    /\ credentials[u].password = Hash(2)
    /\ credentials[u].resetPasswordToken = NoToken
    /\ credentials[v].resetPasswordToken # NoToken
    /\ credentials[v].resetPasswordExpires <= clock

\* C24: every stored reservation has startTime < endTime, and whenever
\* createReservation accepts a request the row it inserts has
\* startTime < endTime and a length of at most the maxDuration (in minutes)
\* that the amenity has when the request is served, whatever the
\* administrators have made of the amenity before and make of it after.
C24_Inserted(req) ==
  createReservation(reservations, amenities, nextId, req).store \ reservations

C24_StoredIntervals ==
  /\ \A r \in reservations : r.startTime < r.endTime
  /\ \A req \in Requests :
       LET out == createReservation(reservations, amenities, nextId, req) IN
       IF out.res = Ok
         THEN /\ Cardinality(C24_Inserted(req)) = 1
              /\ \A r \in C24_Inserted(req) :
                   /\ r.startTime < r.endTime
                   /\ r.endTime - r.startTime
                        <= amenities[r.amenityId].maxDuration * MsPerMinute
         ELSE C24_Inserted(req) = {}

\* A stored reservation that is longer than the maxDuration its amenity has
\* now (the amenity was updated after the request), next to a table on which
\* a request of maximal length is accepted.
C24_Witness ==
  /\ \E r \in reservations :
       /\ r.amenityId \in DOMAIN amenities
       /\ r.endTime - r.startTime > amenities[r.amenityId].maxDuration * MsPerMinute
  /\ \E req \in Requests :
       /\ createReservation(reservations, amenities, nextId, req).res = Ok
       /\ req.endTime - req.startTime = amenities[req.amenityId].maxDuration * MsPerMinute

\* The requests C25 is about: well-formed timestamps, and every check other
\* than the capacity check passes.
C25_PassesOtherChecks(req) ==
  /\ req.startTime \in Times /\ req.endTime \in Times
  /\ RefDecision(reservations, amenities, req) \in {Ok, CapacityFull}

\* The confirmed reservations of the amenity that overlap the window.
C25_OverlappingWindow(req) ==
  {r \in Confirmed(reservations) :
     /\ r.amenityId = req.amenityId
     /\ Overlap(r.startTime, r.endTime, req.startTime, req.endTime)}

\* C25 as stated: a request that passes every other check is not answered
\* 'Time slot full' when at every instant of its window fewer than capacity
\* confirmed reservations of the amenity are active.
C25_Original ==
  \A req \in Requests :
    (/\ C25_PassesOtherChecks(req)
     /\ \A t \in req.startTime..(req.endTime - 1) :
          Cardinality(ActiveAt(reservations, req.amenityId, t))
            < amenities[req.amenityId].capacity)
      => Decide(reservations, req).res # CapacityFull

\* C25 amended: a request that passes every other check is answered 'Time
\* slot full' exactly when the confirmed reservations of the amenity that
\* overlap its window, counted over the whole window, number at least the
\* capacity, and is accepted otherwise; in particular it is rejected whenever
\* some instant of the window has capacity reservations active. A request
\* that fails another check is never answered 'Time slot full'.
C25_WindowCount ==
  \A req \in Requests :
    LET res == Decide(reservations, req).res IN
    IF C25_PassesOtherChecks(req)
      THEN /\ res = (IF Cardinality(C25_OverlappingWindow(req))
                          >= amenities[req.amenityId].capacity
                     THEN CapacityFull ELSE Ok)
           /\ (\E t \in req.startTime..(req.endTime - 1) :
                 Cardinality(ActiveAt(reservations, req.amenityId, t))
                   >= amenities[req.amenityId].capacity)
                => res = CapacityFull
      ELSE res # CapacityFull

\* Two reservations of an amenity follow one another, so that one is active
\* at any instant, and a third user's request spanning both is answered 'Time
\* slot full' although the capacity is two.
C25_Witness ==
  \E req \in Requests :
    /\ C25_PassesOtherChecks(req)
    /\ amenities[req.amenityId].capacity = 2
    /\ \A t \in req.startTime..(req.endTime - 1) :
         Cardinality(ActiveAt(reservations, req.amenityId, t)) = 1
    /\ Decide(reservations, req).res = CapacityFull

\* The first and the last instant of a calendar day (UTC).
C26_FirstInstant(day) == day * DayMs
C26_LastInstant(day) == (day + 1) * DayMs - 1

\* C26: for every amenity id and every pair of calendar days,
\* getAmenityReservations with both dates answers 200 with exactly the
\* confirmed reservations of the amenity that have startTime <= the last
\* instant of endDate and endTime >= the first instant of startDate; with
\* startDate alone exactly those with startTime >= the first instant of
\* startDate; with endDate alone exactly those with endTime <= the last
\* instant of endDate.
C26_ListingWindow ==
  \A a \in RequestAmenityIds, d1 \in Days, d2 \in Days :
    LET mine == {r \in reservations : r.amenityId = a /\ r.status = "confirmed"}
        both == getAmenityReservations(reservations, a, d1, d2)
        from == getAmenityReservations(reservations, a, d1, Missing)
        upto == getAmenityReservations(reservations, a, Missing, d2)
    IN
    /\ both.res = Ok /\ from.res = Ok /\ upto.res = Ok
    /\ both.bodies # {} /\ from.bodies # {} /\ upto.bodies # {}
    /\ \A body \in both.bodies :
         RowsOf(body) = {r \in mine : /\ r.startTime <= C26_LastInstant(d2)
                                      /\ r.endTime >= C26_FirstInstant(d1)}
    /\ \A body \in from.bodies :
         RowsOf(body) = {r \in mine : r.startTime >= C26_FirstInstant(d1)}
    /\ \A body \in upto.bodies :
         RowsOf(body) = {r \in mine : r.endTime <= C26_LastInstant(d2)}

\* A confirmed reservation that begins before the queried day and ends
\* within it is returned; another confirmed reservation of the amenity, which
\* ends before the day begins, is not.
C26_Witness ==
  \E r1, r2 \in reservations, d \in Days :
    /\ r1.amenityId = r2.amenityId
    /\ r1.status = "confirmed" /\ r2.status = "confirmed"
    /\ r1.startTime < C26_FirstInstant(d) /\ r1.endTime > C26_FirstInstant(d)
    /\ r2.endTime < C26_FirstInstant(d)
    /\ \A body \in getAmenityReservations(reservations, r1.amenityId, d, d).bodies :
         r1 \in RowsOf(body) /\ r2 \notin RowsOf(body)

\* C27 as stated: with the store steps of concurrent createReservation
\* requests interleaved, no user has two distinct confirmed reservations
\* whose intervals overlap, nor two distinct confirmed reservations of one
\* amenity that start on the same calendar day.
C27_PerUserUnderConcurrency ==
  \A r1, r2 \in Confirmed(reservations) :
    (r1.id # r2.id /\ r1.userId = r2.userId) =>
      /\ ~Overlap(r1.startTime, r1.endTime, r2.startTime, r2.endTime)
      /\ r1.amenityId = r2.amenityId =>
           CalendarDay(r1.startTime) # CalendarDay(r2.startTime)

\* C29 as stated: with role requests interleaved store call by store call
\* and accounts deleted through DELETE /user, the User table holds at least
\* one row with role admin in every reachable state.
C29_AdminAlwaysExists == \E a \in DOMAIN users : users[a] = "admin"

\* C30 as stated: whenever deleteUser ends with the 500 outcome, the
\* Reservation table and the User table are as they were before the request.
C30_DeleteUserAllOrNothing ==
  \A userId \in Users :
    LET out == deleteUser(reservations, users, userId) IN
    out.res = InternalError => (out.store = reservations /\ out.users = users)

====
